---- MODULE Spec2Model ----
EXTENDS Integers, Sequences, FiniteSets, TLC

(***************************************************************************)
(* Affiliate ledger of main.py: the affiliates / orders / withdrawals      *)
(* tables, the user dialogues that create orders and withdrawal requests,  *)
(* and the administrator callbacks that move them to a terminal status.    *)
(*                                                                         *)
(* Money.  The columns are floats.  Here a USD amount is an integer count  *)
(* of 1/10000 USD and a SAR or AED amount a whole number of units, so the  *)
(* rates 0.2665 and 0.2723 are the integers 2665 and 2723.  Float rounding *)
(* and the infinities are not modelled.  float() also parses the text      *)
(* "nan": NaN is a value of its own, every comparison with it is false and *)
(* every sum, difference or product with it is NaN.                        *)
(*                                                                         *)
(* Handlers.  Every handler is a coroutine that opens its own session.  A  *)
(* handler that reads and then writes holds a position between its awaits  *)
(* (tasks); its writes reach the store at its commit.  The store is read   *)
(* committed: a select sees what is committed at that moment, and a        *)
(* relative UPDATE (balance = balance + x) applies to the committed row.   *)
(*                                                                         *)
(* Time.  The unit is the minute and a timestamp is kept relative to the   *)
(* present instant: get_now_timezone_aware is 0, an order created a minute *)
(* ago has created_at -1.  The passing of a minute (tick) moves every      *)
(* timestamp one back.  Only the rate limit reads a timestamp.             *)
(***************************************************************************)

\* ---- bounds of the model
MaxOrders == 1
MaxWithdrawals == 2

\* ---- configuration (main.py:37-47)
RATE_LIMIT_PER_MINUTE == 10
MIN_WITHDRAWAL_AMOUNT == 500000
SAR_TO_USD == 2665
AED_TO_USD == 2723
\* one USD, in the unit of the USD amounts
ONE_USD == 10000
ADMIN_IDS == {900}
\* timedelta(minutes=1), in the unit of time
ONE_MINUTE == 1

\* ---- the environment's inputs
Users == {101}
\* the chats in which a user talks to the bot
ChatInputs == {"private", "group"}
Callers == Users \cup ADMIN_IDS
Slots == {"h1", "h2"}
CountryInputs == {"Saudi Arabia", "UAE", "other"}
\* a customer phone number, by the pattern it matches
PhoneInputs == {"+966", "+971", "other"}
\* float("nan"), kept apart from every amount that arithmetic can produce
NaN == -1000000000

CostInputs == {0, 100}
SellingInputs == {0, 100, 400, NaN}
AmountInputs == {0, 100000, 500000, 2000000, NaN}
\* RATE_LIMIT_PER_MINUTE in the environment of a process whose ceiling is set low
CeilingInputs == {1}
\* the currency codes convert_to_usd is applied to
CurrencyInputs == {"SAR", "AED", "USD", "EGP", "N/A"}
\* the selling prices of an order it is applied to, whose cost price is 100
ConvertInputs == {150, 400, NaN}

VARIABLES
    affiliates,          \* table affiliates: row id = index
    orders,              \* table orders
    withdrawals,         \* table withdrawals
    user_data,           \* per user: context.user_data
    conversation,        \* per chat and user: the state of the user's dialogue
    tasks,               \* per slot: a handler coroutine between its awaits
    credited,            \* history: per order, how often the ledger was credited
    debited,             \* history: per withdrawal, how often the balance was debited
    concurrent_updates,  \* whether handlers of different updates may overlap
    rate_limit_per_minute \* int(os.getenv("RATE_LIMIT_PER_MINUTE", 10)) of the process

vars == <<affiliates, orders, withdrawals, user_data, conversation, tasks, credited,
          debited, concurrent_updates, rate_limit_per_minute>>

\* what the process reads once, when it starts
config == <<concurrent_updates, rate_limit_per_minute>>

\* ---- the clock
get_now_timezone_aware == 0
one_minute_ago == get_now_timezone_aware - ONE_MINUTE
\* every instant before one_minute_ago: the rate limit cannot tell them apart
long_ago == one_minute_ago - 1

\* ---- rows
NewAffiliate(telegram_id) ==
    [telegram_id |-> telegram_id, balance |-> 0, total_earnings |-> 0,
     total_sales |-> 0, total_orders |-> 0]

NewOrder(affiliate_id, customer_phone, country, currency, cost_price, selling_price, commission) ==
    [affiliate_id |-> affiliate_id, customer_phone |-> customer_phone,
     country |-> country, currency |-> currency,
     cost_price |-> cost_price, selling_price |-> selling_price,
     commission |-> commission, status |-> "pending",
     created_at |-> get_now_timezone_aware]

\* faulty variant: the row is inserted as approved
NewWithdrawal_Approved(affiliate_id, amount, currency) ==
    [affiliate_id |-> affiliate_id, amount |-> amount, currency |-> currency,
     status |-> "approved", processed_at |-> "NULL", processed_by_admin_id |-> 0]

NewWithdrawal(affiliate_id, amount, currency) ==
    [affiliate_id |-> affiliate_id, amount |-> amount, currency |-> currency,
     status |-> "pending", processed_at |-> "NULL", processed_by_admin_id |-> 0]

\* ---- float arithmetic and comparison
FloatAdd(x, y) == IF x = NaN \/ y = NaN THEN NaN ELSE x + y
FloatSub(x, y) == IF x = NaN \/ y = NaN THEN NaN ELSE x - y
FloatMul(x, y) == IF x = NaN \/ y = NaN THEN NaN ELSE x * y
FloatLe(x, y) == x # NaN /\ y # NaN /\ x <= y
FloatLt(x, y) == x # NaN /\ y # NaN /\ x < y
FloatGt(x, y) == x # NaN /\ y # NaN /\ x > y

\* What the commit of a row makes of a NaN: a store whose float type has NaN
\* keeps it; another raises, and the handler rolls back.
CommitOutcomes(row_has_nan) == IF row_has_nan THEN {"stored", "raised"} ELSE {"stored"}

\* ---- utility functions
validate_customer_phone(phone, country) ==
    IF country = "Saudi Arabia" THEN phone = "+966"
    ELSE IF country = "UAE" THEN phone = "+971" ELSE FALSE

get_currency_for_country(country) ==
    IF country = "Saudi Arabia" THEN "SAR"
    ELSE IF country = "UAE" THEN "AED" ELSE "N/A"

KnownCurrency(currency) == currency \in {"SAR", "AED", "USD"}

\* raise ValueError(...): the value of a call that raises
ValueError == -2000000000

\* faulty variant: an unknown currency is taken as USD
convert_to_usd_Defaulting(amount, currency) ==
    IF currency = "SAR" THEN FloatMul(amount, SAR_TO_USD)
    ELSE IF currency = "AED" THEN FloatMul(amount, AED_TO_USD)
    ELSE FloatMul(amount, ONE_USD)

convert_to_usd(amount, currency) ==
    IF currency = "SAR" THEN FloatMul(amount, SAR_TO_USD)
    ELSE IF currency = "AED" THEN FloatMul(amount, AED_TO_USD)
    ELSE IF currency = "USD" THEN FloatMul(amount, ONE_USD)
    ELSE ValueError

\* ---- queries
AffiliateIds == 1..Len(affiliates)
OrderIds == 1..Len(orders)
WithdrawalIds == 1..Len(withdrawals)

AffiliateByTelegram(u) ==
    IF \E a \in AffiliateIds : affiliates[a].telegram_id = u
    THEN CHOOSE a \in AffiliateIds : affiliates[a].telegram_id = u
    ELSE 0

\* faulty variant: telegram_id is not unique
TelegramIdFree_NotUnique(u) == TRUE

\* telegram_id = Column(BigInteger, unique=True, ...)
TelegramIdFree(u) == AffiliateByTelegram(u) = 0

PendingWithdrawals(affiliate_id) ==
    {w \in WithdrawalIds : /\ withdrawals[w].affiliate_id = affiliate_id
                           /\ withdrawals[w].status = "pending"}

\* faulty variant: the pending check finds nothing
HasPending_Never(affiliate_id) == FALSE

\* faulty variant: a request of any status counts
HasPending_AnyStatus(affiliate_id) ==
    \E w \in 1..Len(withdrawals) : withdrawals[w].affiliate_id = affiliate_id

\* pending_withdrawals.scalars().first(): whether the affiliate has a pending request
HasPending(affiliate_id) == PendingWithdrawals(affiliate_id) # {}

\* affiliate.balance of the row just selected
Balance(affiliate_id) == affiliates[affiliate_id].balance

OrdersOf(affiliate_id) == {o \in OrderIds : orders[o].affiliate_id = affiliate_id}

\* select count() from orders where affiliate_id = .. and created_at >= ..
OrdersSince(affiliate_id, since) ==
    {o \in OrdersOf(affiliate_id) : orders[o].created_at >= since}

\* faulty variant: the check always passes
rate_limit_check_Always(affiliate_id) == TRUE

\* faulty variant: an order created exactly a minute ago is not counted
rate_limit_check_Exclusive(affiliate_id) ==
    Cardinality({o \in OrdersOf(affiliate_id) : orders[o].created_at > one_minute_ago})
      < rate_limit_per_minute

\* faulty variant: every order of the affiliate is counted, whatever its age
rate_limit_check_AllOrders(affiliate_id) ==
    Cardinality(OrdersOf(affiliate_id)) < rate_limit_per_minute

rate_limit_check(affiliate_id) ==
    Cardinality(OrdersSince(affiliate_id, one_minute_ago)) < rate_limit_per_minute

\* The orders table is bounded by MaxOrders; a process whose ceiling is set low
\* has room besides for the orders that reach the ceiling.
OrdersBound ==
    IF rate_limit_per_minute < RATE_LIMIT_PER_MINUTE
    THEN MaxOrders + rate_limit_per_minute ELSE MaxOrders

\* ---- context.user_data of one user
\* A key that is not in the dictionary reads as None: 0 for an id or an amount
\* (no handler stores 0), "none" for a string.  texts is the set of the keys
\* that hold a free text.
NoData ==
    [affiliate_id |-> 0, affiliate_balance |-> 0, texts |-> {},
     order_country |-> "none", order_currency |-> "none",
     order_customer_phone |-> "none", order_cost_price |-> 0,
     withdrawal_amount |-> 0]

\* ---- conversations
\* A ConversationHandler keeps the state of a dialogue per chat and user, while
\* context.user_data is kept per user.
Chats == DOMAIN conversation

NoConversation(chats) == [c \in chats |-> [u \in Users |-> "END"]]

\* The administrator's conversation (admin_conv_handler) is followed only where
\* conversation has a state for the administrator; elsewhere the administrator
\* is taken to have opened the menu a callback needs. The states kept for the
\* members of Users are those of their own dialogues.
AdminChat == "private"

AdminConversation(chats) == [c \in chats |-> [u \in Callers |-> "END"]]

Followed(caller) == caller \in DOMAIN conversation[AdminChat] \ Users

\* faulty variant: the callbacks are handled in every state
InMenu_Any(caller, menu) == TRUE

\* the state under which admin_conv_handler lists the handler
InMenu(caller, menu) == Followed(caller) => conversation[AdminChat][caller] = menu

\* ---- handler coroutines
\* pc: "done" when no handler runs in the slot; otherwise the await the handler
\* has last passed; "reply" once all that is left is the message to the caller.
NoTask ==
    [handler |-> "none", pc |-> "done", chat |-> "none", user |-> 0,
     action |-> "none", target |-> 0,
     affiliate_id |-> 0, balance |-> 0, amount |-> 0, seen |-> "none",
     result |-> "none"]

Task(handler, pc, user, action, target) ==
    [NoTask EXCEPT !.handler = handler, !.pc = pc, !.user = user,
                   !.action = action, !.target = target]

Running(s) == tasks[s].pc # "done"

\* Without concurrent updates the dispatcher awaits a handler before it takes the
\* next update; with them a handler starts while others are between their awaits.
Dispatchable == concurrent_updates \/ \A t \in Slots : ~Running(t)

\* a new handler takes the first free slot
CanStart(s) ==
    /\ Dispatchable
    /\ ~Running(s)
    /\ s = "h1" \/ Running("h1")

\* what is left of a handler once it has only to answer: who called it, for
\* what, and the outcome
Reply(t, result) ==
    [t EXCEPT !.pc = "reply", !.result = result, !.affiliate_id = 0, !.amount = 0]

Init ==
    /\ affiliates = <<>>
    /\ orders = <<>>
    /\ withdrawals = <<>>
    /\ user_data = [u \in Users |-> NoData]
    /\ conversation = NoConversation({"private"})
    /\ tasks = [s \in Slots |-> NoTask]
    /\ credited = <<>>
    /\ debited = <<>>
    /\ concurrent_updates = FALSE
    /\ rate_limit_per_minute = RATE_LIMIT_PER_MINUTE

InitConcurrent ==
    /\ affiliates = <<>>
    /\ orders = <<>>
    /\ withdrawals = <<>>
    /\ user_data = [u \in Users |-> NoData]
    /\ conversation = NoConversation({"private"})
    /\ tasks = [s \in Slots |-> NoTask]
    /\ credited = <<>>
    /\ debited = <<>>
    /\ concurrent_updates = TRUE
    /\ rate_limit_per_minute = RATE_LIMIT_PER_MINUTE

\* a process started with RATE_LIMIT_PER_MINUTE set in its environment
InitRateLimit ==
    /\ affiliates = <<>>
    /\ orders = <<>>
    /\ withdrawals = <<>>
    /\ user_data = [u \in Users |-> NoData]
    /\ conversation = NoConversation({"private"})
    /\ tasks = [s \in Slots |-> NoTask]
    /\ credited = <<>>
    /\ debited = <<>>
    /\ concurrent_updates = FALSE
    /\ rate_limit_per_minute \in CeilingInputs

\* a process with a low ceiling whose user talks to the bot in two chats
InitTwoChats ==
    /\ affiliates = <<>>
    /\ orders = <<>>
    /\ withdrawals = <<>>
    /\ user_data = [u \in Users |-> NoData]
    /\ conversation = NoConversation(ChatInputs)
    /\ tasks = [s \in Slots |-> NoTask]
    /\ credited = <<>>
    /\ debited = <<>>
    /\ concurrent_updates = FALSE
    /\ rate_limit_per_minute \in CeilingInputs

\* convert_to_usd applied inside the order callback: one affiliate and one
\* pending order whose currency is any code and whose prices passed the dialogue
InitConvert ==
    /\ \E u \in Users, currency \in CurrencyInputs,
          selling_price \in ConvertInputs :
          /\ affiliates = <<[NewAffiliate(u) EXCEPT !.total_orders = 1]>>
          /\ orders = <<NewOrder(1, "other",
                                 IF currency = "SAR" THEN "Saudi Arabia"
                                 ELSE IF currency = "AED" THEN "UAE" ELSE "other",
                                 currency, 100, selling_price,
                                 FloatSub(selling_price, 100))>>
    /\ withdrawals = <<>>
    /\ user_data = [u \in Users |-> NoData]
    /\ conversation = NoConversation({"private"})
    /\ tasks = [s \in Slots |-> NoTask]
    /\ credited = <<0>>
    /\ debited = <<>>
    /\ concurrent_updates = FALSE
    /\ rate_limit_per_minute = RATE_LIMIT_PER_MINUTE

\* An affiliate after its first order (400 SAR over a cost of 100) has been
\* delivered and it has requested a withdrawal of the minimum, with further
\* orders pending, for the UAE and Saudi Arabia in turn; handlers overlap.
LedgerOrders == MaxOrders + 2

InitLedger ==
    /\ affiliates = <<[NewAffiliate(CHOOSE u \in Users : TRUE)
                         EXCEPT !.balance = 300 * SAR_TO_USD,
                                !.total_earnings = 300 * SAR_TO_USD,
                                !.total_sales = 400 * SAR_TO_USD,
                                !.total_orders = LedgerOrders]>>
    /\ orders = [o \in 1..LedgerOrders |->
                   LET country == IF o % 2 = 1 THEN "Saudi Arabia" ELSE "UAE"
                       order == NewOrder(1, IF o % 2 = 1 THEN "+966" ELSE "+971",
                                         country, get_currency_for_country(country),
                                         100, 400, FloatSub(400, 100))
                   IN IF o = 1 THEN [order EXCEPT !.status = "delivered"] ELSE order]
    /\ withdrawals = <<NewWithdrawal(1, MIN_WITHDRAWAL_AMOUNT, "USD")>>
    /\ user_data = [u \in Users |-> NoData]
    /\ conversation = NoConversation({"private"})
    /\ tasks = [s \in Slots |-> NoTask]
    /\ credited = [o \in 1..LedgerOrders |-> IF o = 1 THEN 1 ELSE 0]
    /\ debited = <<0>>
    /\ concurrent_updates = TRUE
    /\ rate_limit_per_minute = RATE_LIMIT_PER_MINUTE

\* handlers one at a time, the administrator's conversation followed
InitAdmin ==
    /\ affiliates = <<>>
    /\ orders = <<>>
    /\ withdrawals = <<>>
    /\ user_data = [u \in Users |-> NoData]
    /\ conversation = AdminConversation({AdminChat})
    /\ tasks = [s \in Slots |-> NoTask]
    /\ credited = <<>>
    /\ debited = <<>>
    /\ concurrent_updates = FALSE
    /\ rate_limit_per_minute = RATE_LIMIT_PER_MINUTE

db == <<affiliates, orders, withdrawals, credited, debited>>

\* ---- registration dialogue
start_command(c, u) ==
    /\ Dispatchable
    /\ conversation[c][u] = "END"
    /\ conversation' = [conversation EXCEPT
                          ![c][u] = IF AffiliateByTelegram(u) # 0
                                    THEN "END" ELSE "REGISTER_NAME"]
    /\ UNCHANGED <<db, user_data, tasks, config>>

register_name(c, u, valid) ==
    /\ Dispatchable
    /\ conversation[c][u] = "REGISTER_NAME"
    /\ IF valid
       THEN /\ conversation' = [conversation EXCEPT ![c][u] = "REGISTER_PHONE"]
            /\ user_data' = [user_data EXCEPT ![u].texts = @ \cup {"registration_name"}]
       ELSE UNCHANGED <<conversation, user_data>>
    /\ UNCHANGED <<db, tasks, config>>

register_phone(c, u, valid) ==
    /\ Dispatchable
    /\ conversation[c][u] = "REGISTER_PHONE"
    /\ IF valid
       THEN /\ conversation' = [conversation EXCEPT ![c][u] = "REGISTER_STORE_NAME"]
            /\ user_data' = [user_data EXCEPT ![u].texts = @ \cup {"registration_phone"}]
       ELSE UNCHANGED <<conversation, user_data>>
    /\ UNCHANGED <<db, tasks, config>>

\* the insert of an Affiliate row raises when telegram_id is taken (unique) or
\* when name or phone is None (not null), and the handler rolls back
AffiliateInsertable(u) ==
    /\ TelegramIdFree(u)
    /\ {"registration_name", "registration_phone"} \subseteq user_data[u].texts

register_store_name(c, u, valid) ==
    /\ Dispatchable
    /\ conversation[c][u] = "REGISTER_STORE_NAME"
    /\ IF ~valid
       THEN UNCHANGED <<affiliates, user_data, conversation>>
       ELSE /\ conversation' = [conversation EXCEPT ![c][u] = "END"]
            /\ user_data' = [user_data EXCEPT ![u] = NoData]
            /\ affiliates' = IF AffiliateInsertable(u)
                             THEN Append(affiliates, NewAffiliate(u))
                             ELSE affiliates
    /\ UNCHANGED <<orders, withdrawals, credited, debited, tasks, config>>

\* faulty variant: the collected fields are kept
Cleared_Kept(data) == data

\* context.user_data.clear()
Cleared(data) == NoData

\* /cancel in a dialogue: the fallback of each conversation
cancel_conversation(c, u) ==
    /\ Dispatchable
    /\ conversation[c][u] # "END"
    /\ conversation' = [conversation EXCEPT ![c][u] = "END"]
    /\ user_data' = [user_data EXCEPT ![u] = Cleared(@)]
    /\ UNCHANGED <<db, tasks, config>>

\* ---- order dialogue
start_order(c, u) ==
    /\ Dispatchable
    /\ conversation[c][u] = "END"
    /\ Len(orders) < OrdersBound
    /\ LET a == AffiliateByTelegram(u) IN
       IF a # 0 /\ rate_limit_check(a)
       THEN /\ conversation' = [conversation EXCEPT ![c][u] = "ORDER_CUSTOMER_NAME"]
            /\ user_data' = [user_data EXCEPT ![u].affiliate_id = a]
       ELSE UNCHANGED <<conversation, user_data>>
    /\ UNCHANGED <<db, tasks, config>>

\* the state that follows each step of the order dialogue
NextOrderState(state) ==
    CASE state = "ORDER_CUSTOMER_NAME" -> "ORDER_COUNTRY"
      [] state = "ORDER_COUNTRY" -> "ORDER_CUSTOMER_PHONE"
      [] state = "ORDER_CUSTOMER_PHONE" -> "ORDER_ADDRESS"
      [] state = "ORDER_ADDRESS" -> "ORDER_CITY"
      [] state = "ORDER_CITY" -> "ORDER_PRODUCT"
      [] state = "ORDER_PRODUCT" -> "ORDER_PRODUCT_CODE"
      [] state = "ORDER_PRODUCT_CODE" -> "ORDER_COST_PRICE"
      [] state = "ORDER_COST_PRICE" -> "ORDER_SELLING_PRICE"

\* the steps that take a free text, and the key each stores it under
OrderTextStates ==
    {"ORDER_CUSTOMER_NAME", "ORDER_ADDRESS", "ORDER_CITY", "ORDER_PRODUCT",
     "ORDER_PRODUCT_CODE"}

OrderTextKey(state) ==
    CASE state = "ORDER_CUSTOMER_NAME" -> "order_customer_name"
      [] state = "ORDER_ADDRESS" -> "order_address"
      [] state = "ORDER_CITY" -> "order_city"
      [] state = "ORDER_PRODUCT" -> "order_product"
      [] state = "ORDER_PRODUCT_CODE" -> "order_product_code"

OrderTextKeys == {OrderTextKey(state) : state \in OrderTextStates}

\* order_customer_name, order_address, order_city, order_product,
\* order_product_code: an invalid text repeats the step
order_text(c, u, valid) ==
    /\ Dispatchable
    /\ conversation[c][u] \in OrderTextStates
    /\ IF valid
       THEN /\ conversation' = [conversation EXCEPT ![c][u] = NextOrderState(@)]
            /\ user_data' = [user_data EXCEPT
                   ![u].texts = @ \cup {OrderTextKey(conversation[c][u])}]
       ELSE UNCHANGED <<conversation, user_data>>
    /\ UNCHANGED <<db, tasks, config>>

order_country(c, u, country) ==
    /\ Dispatchable
    /\ conversation[c][u] = "ORDER_COUNTRY"
    /\ IF country \in {"Saudi Arabia", "UAE"}
       THEN /\ conversation' = [conversation EXCEPT ![c][u] = NextOrderState(@)]
            /\ user_data' = [user_data EXCEPT
                   ![u].order_country = country,
                   ![u].order_currency = get_currency_for_country(country)]
       ELSE UNCHANGED <<conversation, user_data>>
    /\ UNCHANGED <<db, tasks, config>>

\* the phone is validated against the country that context.user_data holds
order_customer_phone(c, u, phone) ==
    /\ Dispatchable
    /\ conversation[c][u] = "ORDER_CUSTOMER_PHONE"
    /\ IF validate_customer_phone(phone, user_data[u].order_country)
       THEN /\ conversation' = [conversation EXCEPT ![c][u] = NextOrderState(@)]
            /\ user_data' = [user_data EXCEPT ![u].order_customer_phone = phone]
       ELSE UNCHANGED <<conversation, user_data>>
    /\ UNCHANGED <<db, tasks, config>>

order_cost_price(c, u, cost_price) ==
    /\ Dispatchable
    /\ conversation[c][u] = "ORDER_COST_PRICE"
    /\ IF FloatLe(cost_price, 0)
       THEN UNCHANGED <<conversation, user_data>>
       ELSE /\ conversation' = [conversation EXCEPT ![c][u] = NextOrderState(@)]
            /\ user_data' = [user_data EXCEPT ![u].order_cost_price = cost_price]
    /\ UNCHANGED <<db, tasks, config>>

\* the prices the dialogue accepts
ValidPricing(cost_price, selling_price) ==
    ~FloatLe(selling_price, 0) /\ ~FloatLe(selling_price, cost_price)

\* faulty variant: the counter is not updated
CountOrder_Skipped(affiliate_id) == affiliates

\* UPDATE affiliates SET total_orders = total_orders + 1
CountOrder(affiliate_id) ==
    [affiliates EXCEPT ![affiliate_id].total_orders = @ + 1]

\* the columns of an Order that are not null and come from context.user_data
\* (the currency is read with the default 'SAR')
OrderInsertable(d) ==
    /\ OrderTextKeys \subseteq d.texts
    /\ d.order_customer_phone # "none"
    /\ d.order_country # "none"

\* The select of the affiliate row serves only to find that it exists, and rows
\* are not deleted by any handler, so the select, the insert and the relative
\* update are taken as one step at the commit.  When the commit raises, the
\* handler rolls back; in either case it clears context.user_data and ends.
\* A selling price above 0 compared with a cost price of None raises a
\* TypeError that the handler does not catch: nothing changes.
order_selling_price(c, u, selling_price) ==
    /\ Dispatchable
    /\ conversation[c][u] = "ORDER_SELLING_PRICE"
    /\ LET d == user_data[u]
           commission == FloatSub(selling_price, d.order_cost_price)
           currency == IF d.order_currency = "none" THEN "SAR" ELSE d.order_currency
       IN IF \/ ~ValidPricing(d.order_cost_price, selling_price)
             \/ d.order_cost_price = 0
          THEN UNCHANGED <<user_data, conversation, affiliates, orders, credited>>
          ELSE /\ Len(orders) < OrdersBound
               /\ conversation' = [conversation EXCEPT ![c][u] = "END"]
               /\ user_data' = [user_data EXCEPT ![u] = NoData]
               /\ \E outcome \in CommitOutcomes(commission = NaN) :
                    IF /\ d.affiliate_id \in AffiliateIds
                       /\ OrderInsertable(d)
                       /\ outcome = "stored"
                    THEN /\ orders' = Append(orders,
                                  NewOrder(d.affiliate_id, d.order_customer_phone,
                                           d.order_country, currency,
                                           d.order_cost_price, selling_price,
                                           commission))
                         /\ credited' = Append(credited, 0)
                         /\ affiliates' = CountOrder(d.affiliate_id)
                    ELSE UNCHANGED <<affiliates, orders, credited>>
    /\ UNCHANGED <<withdrawals, debited, tasks, config>>

\* ---- withdrawal dialogue
start_withdrawal(c, u) ==
    /\ Dispatchable
    /\ conversation[c][u] = "END"
    /\ Len(withdrawals) < MaxWithdrawals
    /\ LET a == AffiliateByTelegram(u) IN
       IF a = 0 \/ HasPending(a) \/ FloatLt(Balance(a), MIN_WITHDRAWAL_AMOUNT)
       THEN UNCHANGED <<conversation, user_data>>
       ELSE /\ conversation' = [conversation EXCEPT ![c][u] = "WITHDRAWAL_AMOUNT"]
            /\ user_data' = [user_data EXCEPT
                   ![u].affiliate_id = a,
                   ![u].affiliate_balance = Balance(a)]
    /\ UNCHANGED <<db, tasks, config>>

\* the amounts withdrawal_amount lets through, against the balance start_withdrawal saw
AmountAccepted(amount, affiliate_balance) ==
    /\ ~FloatLe(amount, 0)
    /\ ~FloatGt(amount, affiliate_balance)
    /\ ~FloatLt(amount, MIN_WITHDRAWAL_AMOUNT)

\* An amount above 0 compared with an affiliate_balance of None raises a
\* TypeError that the handler does not catch: nothing changes.
withdrawal_amount(c, u, amount) ==
    /\ Dispatchable
    /\ conversation[c][u] = "WITHDRAWAL_AMOUNT"
    /\ IF /\ AmountAccepted(amount, user_data[u].affiliate_balance)
          /\ user_data[u].affiliate_balance # 0
       THEN /\ conversation' = [conversation EXCEPT ![c][u] = "WITHDRAWAL_PHONE"]
            /\ user_data' = [user_data EXCEPT ![u].withdrawal_amount = amount]
       ELSE UNCHANGED <<conversation, user_data>>
    /\ UNCHANGED <<db, tasks, config>>

WithdrawalsInFlight ==
    Cardinality({t \in Slots : tasks[t].handler = "withdrawal_phone" /\ Running(t)
                               /\ tasks[t].pc # "reply"})

\* the re-check of the balance the handler has just read
BalanceCovers(amount, balance) == ~FloatGt(amount, balance)

\* withdrawal_phone up to its first select: the phone is validated, the
\* affiliate row is read and the amount is checked against its balance.  An
\* amount of None makes the comparison raise, and the handler answers with an
\* error.
withdrawal_phone(s, c, u, valid) ==
    /\ CanStart(s)
    /\ conversation[c][u] = "WITHDRAWAL_PHONE"
    /\ IF ~valid
       THEN UNCHANGED tasks
       ELSE LET d == user_data[u]
                t == [Task("withdrawal_phone", "affiliate_read", u, "request", 0)
                        EXCEPT !.chat = c,
                               !.affiliate_id = d.affiliate_id,
                               !.amount = d.withdrawal_amount]
            IN /\ Len(withdrawals) + WithdrawalsInFlight < MaxWithdrawals
               /\ IF d.affiliate_id \notin AffiliateIds
                  THEN tasks' = [tasks EXCEPT ![s] = Reply(t, "affiliate_not_found")]
                  ELSE IF d.withdrawal_amount = 0
                  THEN tasks' = [tasks EXCEPT ![s] = Reply(t, "error")]
                  ELSE IF ~BalanceCovers(d.withdrawal_amount, Balance(d.affiliate_id))
                  THEN tasks' = [tasks EXCEPT ![s] = Reply(t, "insufficient_balance")]
                  ELSE tasks' = [tasks EXCEPT ![s] =
                              [t EXCEPT !.balance = Balance(d.affiliate_id)]]
    /\ UNCHANGED <<db, user_data, conversation, config>>

\* the second select: the affiliate's pending withdrawals
withdrawal_phone_pending(s) ==
    /\ tasks[s].handler = "withdrawal_phone"
    /\ tasks[s].pc = "affiliate_read"
    /\ IF HasPending(tasks[s].affiliate_id)
       THEN tasks' = [tasks EXCEPT ![s] = Reply(@, "duplicate_pending")]
       ELSE tasks' = [tasks EXCEPT ![s].pc = "pending_read"]
    /\ UNCHANGED <<db, user_data, conversation, config>>

\* session.add(withdrawal); commit.  The balance is not touched.  When the
\* commit raises, the handler rolls back and answers with an error.
withdrawal_phone_commit(s) ==
    /\ tasks[s].handler = "withdrawal_phone"
    /\ tasks[s].pc = "pending_read"
    /\ \E outcome \in CommitOutcomes(tasks[s].amount = NaN) :
         IF outcome = "stored"
         THEN /\ withdrawals' = Append(withdrawals,
                      NewWithdrawal(tasks[s].affiliate_id, tasks[s].amount, "USD"))
              /\ debited' = Append(debited, 0)
              /\ tasks' = [tasks EXCEPT ![s] = [Reply(@, "created") EXCEPT
                                                  !.target = Len(withdrawals) + 1]]
         ELSE /\ tasks' = [tasks EXCEPT ![s] = Reply(@, "error")]
              /\ UNCHANGED <<withdrawals, debited>>
    /\ UNCHANGED <<affiliates, orders, credited, user_data, conversation, config>>

\* ---- administrator callbacks
\* faulty variant: the status check lets every status through
IsPending_Always(status) == TRUE

IsPending(status) == status = "pending"

\* either callback for a caller who is not in ADMIN_IDS: it answers and returns
\* before it opens a session
\* faulty variant: the caller is not checked
IsAdmin_Anyone(caller) == TRUE

\* query.from_user.id in ADMIN_IDS
IsAdmin(caller) == caller \in ADMIN_IDS

callback_unauthorized(caller) ==
    /\ Dispatchable
    /\ ~IsAdmin(caller)
    /\ UNCHANGED vars

\* handle_order_status_callback of an administrator up to its first select: the
\* order row is read
handle_order_status_callback(s, caller, action, order_id) ==
    /\ CanStart(s)
    /\ InMenu(caller, "ADMIN_ORDERS_MENU")
    /\ IsAdmin(caller)
    /\ order_id \in OrderIds
    /\ LET t == Task("handle_order_status_callback", "order_read", caller, action,
                     order_id)
       IN tasks' = [tasks EXCEPT ![s] =
             IF ~IsPending(orders[order_id].status)
             THEN [Reply(t, "already_processed") EXCEPT !.seen = orders[order_id].status]
             ELSE [t EXCEPT !.seen = orders[order_id].status,
                            !.affiliate_id = orders[order_id].affiliate_id]]
    /\ UNCHANGED <<db, user_data, conversation, config>>

\* the select of the owning affiliate
order_callback_affiliate(s) ==
    /\ tasks[s].handler = "handle_order_status_callback"
    /\ tasks[s].pc = "order_read"
    /\ tasks' = [tasks EXCEPT ![s] =
          IF tasks[s].affiliate_id \notin AffiliateIds
          THEN Reply(@, "affiliate_not_found")
          ELSE [@ EXCEPT !.pc = "affiliate_read"]]
    /\ UNCHANGED <<db, user_data, conversation, config>>

\* faulty variant: the update leaves total_earnings out
CreditAffiliate_NoEarnings(affiliate_id, usd_commission, usd_selling_price) ==
    [affiliates EXCEPT ![affiliate_id].balance = FloatAdd(@, usd_commission),
                       ![affiliate_id].total_sales = FloatAdd(@, usd_selling_price)]

\* faulty variant: the update assigns the amounts instead of adding them
CreditAffiliate_Assign(affiliate_id, usd_commission, usd_selling_price) ==
    [affiliates EXCEPT ![affiliate_id].balance = usd_commission,
                       ![affiliate_id].total_earnings = usd_commission,
                       ![affiliate_id].total_sales = usd_selling_price]

\* faulty variant: the update leaves total_sales out
CreditAffiliate_NoSales(affiliate_id, usd_commission, usd_selling_price) ==
    [affiliates EXCEPT ![affiliate_id].balance = FloatAdd(@, usd_commission),
                       ![affiliate_id].total_earnings = FloatAdd(@, usd_commission)]

\* UPDATE affiliates SET balance = balance + c, total_earnings = total_earnings + c,
\* total_sales = total_sales + p
CreditAffiliate(affiliate_id, usd_commission, usd_selling_price) ==
    [affiliates EXCEPT ![affiliate_id].balance = FloatAdd(@, usd_commission),
                       ![affiliate_id].total_earnings = FloatAdd(@, usd_commission),
                       ![affiliate_id].total_sales = FloatAdd(@, usd_selling_price)]

\* faulty variant: every action writes delivered
SetOrderStatus_Delivered(order_id, status) ==
    [orders EXCEPT ![order_id].status = "delivered"]

\* faulty variant: the commission is rewritten in USD with the status
SetOrderStatus_UsdCommission(order_id, status) ==
    [orders EXCEPT ![order_id].status = status,
                   ![order_id].commission = convert_to_usd(@, orders[order_id].currency)]

\* order.status = "delivered" / order.status = "issue"
SetOrderStatus(order_id, status) == [orders EXCEPT ![order_id].status = status]

\* the flush of order.status, the update of the affiliate and the commit.  An
\* unknown currency makes convert_to_usd raise before anything is written.
order_callback_commit(s) ==
    /\ tasks[s].handler = "handle_order_status_callback"
    /\ tasks[s].pc = "affiliate_read"
    /\ LET t == tasks[s]
           o == orders[t.target]
       IN IF convert_to_usd(o.commission, o.currency) = ValueError
          THEN /\ tasks' = [tasks EXCEPT ![s] = Reply(@, "error")]
               /\ UNCHANGED <<affiliates, orders, credited>>
          ELSE IF t.action = "delivered"
          THEN /\ orders' = SetOrderStatus(t.target, "delivered")
               /\ affiliates' = CreditAffiliate(t.affiliate_id,
                                    convert_to_usd(o.commission, o.currency),
                                    convert_to_usd(o.selling_price, o.currency))
               /\ credited' = [credited EXCEPT ![t.target] = @ + 1]
               /\ tasks' = [tasks EXCEPT ![s] = Reply(@, "delivered")]
          ELSE /\ orders' = SetOrderStatus(t.target, "issue")
               /\ tasks' = [tasks EXCEPT ![s] = Reply(@, "issue")]
               /\ UNCHANGED <<affiliates, credited>>
    /\ UNCHANGED <<withdrawals, debited, user_data, conversation, config>>

\* handle_withdrawal_callback of an administrator up to its first select
handle_withdrawal_callback(s, caller, action, withdrawal_id) ==
    /\ CanStart(s)
    /\ InMenu(caller, "ADMIN_WITHDRAWALS_MENU")
    /\ IsAdmin(caller)
    /\ withdrawal_id \in WithdrawalIds
    /\ LET t == Task("handle_withdrawal_callback", "withdrawal_read", caller, action,
                     withdrawal_id)
           w == withdrawals[withdrawal_id]
       IN tasks' = [tasks EXCEPT ![s] =
             IF ~IsPending(w.status)
             THEN [Reply(t, "already_processed") EXCEPT !.seen = w.status]
             ELSE [t EXCEPT !.seen = w.status, !.affiliate_id = w.affiliate_id,
                            !.amount = w.amount]]
    /\ UNCHANGED <<db, user_data, conversation, config>>

\* faulty variant: the approval does not look at the balance
ApproveAllowed_Always(balance, amount) == TRUE

\* the approval's check of the balance the handler has read
ApproveAllowed(balance, amount) == ~FloatLt(balance, amount)

\* the select of the owning affiliate, and for an approval the balance check
withdrawal_callback_affiliate(s) ==
    /\ tasks[s].handler = "handle_withdrawal_callback"
    /\ tasks[s].pc = "withdrawal_read"
    /\ tasks' = [tasks EXCEPT ![s] =
          IF tasks[s].affiliate_id \notin AffiliateIds
          THEN Reply(@, "affiliate_not_found")
          ELSE LET balance == Balance(tasks[s].affiliate_id) IN
               IF tasks[s].action = "approve" /\ ~ApproveAllowed(balance, tasks[s].amount)
               THEN [Reply(@, "insufficient_balance") EXCEPT !.balance = balance]
               ELSE [@ EXCEPT !.pc = "affiliate_read", !.balance = balance]]
    /\ UNCHANGED <<db, user_data, conversation, config>>

\* faulty variant: the amount is taken from the earnings as well
DebitAffiliate_Earnings(affiliate_id, amount) ==
    [affiliates EXCEPT ![affiliate_id].balance = FloatSub(@, amount),
                       ![affiliate_id].total_earnings = FloatSub(@, amount)]

\* faulty variant: the balance is debited twice
DebitAffiliate_Twice(affiliate_id, amount) ==
    [affiliates EXCEPT ![affiliate_id].balance = FloatSub(FloatSub(@, amount), amount)]

\* UPDATE affiliates SET balance = balance - amount
DebitAffiliate(affiliate_id, amount) ==
    [affiliates EXCEPT ![affiliate_id].balance = FloatSub(@, amount)]

\* faulty variant: processed_at is left out
Processed_NoStamp(withdrawal_id, status, admin_id) ==
    [withdrawals EXCEPT ![withdrawal_id].status = status,
                        ![withdrawal_id].processed_by_admin_id = admin_id]

\* withdrawal.status, withdrawal.processed_at = now, withdrawal.processed_by_admin_id
Processed(withdrawal_id, status, admin_id) ==
    [withdrawals EXCEPT ![withdrawal_id].status = status,
                        ![withdrawal_id].processed_at = "now",
                        ![withdrawal_id].processed_by_admin_id = admin_id]

\* the update of the balance (approve only), the flush of the withdrawal's
\* status and processed_by_admin_id, and the commit
withdrawal_callback_commit(s) ==
    /\ tasks[s].handler = "handle_withdrawal_callback"
    /\ tasks[s].pc = "affiliate_read"
    /\ LET t == tasks[s] IN
       IF t.action = "approve"
       THEN /\ affiliates' = DebitAffiliate(t.affiliate_id, t.amount)
            /\ withdrawals' = Processed(t.target, "approved", t.user)
            /\ debited' = [debited EXCEPT ![t.target] = @ + 1]
            /\ tasks' = [tasks EXCEPT ![s] = Reply(@, "approved")]
       ELSE /\ withdrawals' = Processed(t.target, "rejected", t.user)
            /\ tasks' = [tasks EXCEPT ![s] = Reply(@, "rejected")]
            /\ UNCHANGED <<affiliates, debited>>
    /\ UNCHANGED <<orders, credited, user_data, conversation, config>>

\* the state a callback returns to the administrator's conversation: ADMIN_MENU
\* on every path but the one that raises, which returns nothing
AfterCallback(state, result) == IF result = "error" THEN state ELSE "ADMIN_MENU"

\* the last await of a handler: the message to the caller; withdrawal_phone then
\* clears context.user_data and ends the dialogue, and a callback returns the
\* next state of the administrator's conversation
reply_text(s) ==
    /\ tasks[s].pc = "reply"
    /\ tasks' = [tasks EXCEPT ![s] = NoTask]
    /\ IF tasks[s].handler = "withdrawal_phone"
       THEN /\ user_data' = [user_data EXCEPT ![tasks[s].user] = NoData]
            /\ conversation' = [conversation EXCEPT
                                  ![tasks[s].chat][tasks[s].user] = "END"]
       ELSE IF Followed(tasks[s].user)
       THEN /\ conversation' = [conversation EXCEPT
                                  ![AdminChat][tasks[s].user] =
                                      AfterCallback(@, tasks[s].result)]
            /\ UNCHANGED user_data
       ELSE UNCHANGED <<user_data, conversation>>
    /\ UNCHANGED <<db, config>>

\* ---- the administrator's menus and the read paths
\* /admin: the entry point of admin_conv_handler, taken in any state
admin_command(caller) ==
    /\ Dispatchable
    /\ Followed(caller)
    /\ conversation' = [conversation EXCEPT
                          ![AdminChat][caller] = IF IsAdmin(caller)
                                                 THEN "ADMIN_MENU" ELSE "END"]
    /\ UNCHANGED <<db, user_data, tasks, config>>

\* faulty variant: the session is closed with the rows it loaded removed
SessionClosed_Deleting(rows) == <<>>

\* async with SessionLocal() as session, left without a commit: the rows the
\* session loaded stay as they are
SessionClosed(rows) == rows

\* the tables after a handler that only selects
ReadOnly ==
    /\ affiliates' = SessionClosed(affiliates)
    /\ orders' = SessionClosed(orders)
    /\ withdrawals' = SessionClosed(withdrawals)
    /\ UNCHANGED <<credited, debited>>

\* the orders button in ADMIN_MENU, or any text in ADMIN_ORDERS_MENU: the
\* pending orders are listed (show_pending_orders)
admin_manage_orders(caller) ==
    /\ Dispatchable
    /\ Followed(caller)
    /\ conversation[AdminChat][caller] \in {"ADMIN_MENU", "ADMIN_ORDERS_MENU"}
    /\ conversation' = [conversation EXCEPT
                          ![AdminChat][caller] = IF IsAdmin(caller)
                                                 THEN "ADMIN_ORDERS_MENU" ELSE "END"]
    /\ ReadOnly
    /\ UNCHANGED <<user_data, tasks, config>>

\* the withdrawals button in ADMIN_MENU, or any text in ADMIN_WITHDRAWALS_MENU:
\* the pending withdrawals are listed (show_pending_withdrawals)
admin_manage_withdrawals(caller) ==
    /\ Dispatchable
    /\ Followed(caller)
    /\ conversation[AdminChat][caller] \in {"ADMIN_MENU", "ADMIN_WITHDRAWALS_MENU"}
    /\ conversation' = [conversation EXCEPT
                          ![AdminChat][caller] = IF IsAdmin(caller)
                                                 THEN "ADMIN_WITHDRAWALS_MENU" ELSE "END"]
    /\ ReadOnly
    /\ UNCHANGED <<user_data, tasks, config>>

\* cmd_stats, cmd_all_orders_admin and handle_view_orders_callback: handled
\* in ADMIN_MENU, which they return
admin_read(caller) ==
    /\ Dispatchable
    /\ Followed(caller)
    /\ conversation[AdminChat][caller] = "ADMIN_MENU"
    /\ conversation' = [conversation EXCEPT
                          ![AdminChat][caller] = IF IsAdmin(caller)
                                                 THEN "ADMIN_MENU" ELSE "END"]
    /\ ReadOnly
    /\ UNCHANGED <<user_data, tasks, config>>

\* /cancel in the administrator's conversation: its fallback
admin_cancel(caller) ==
    /\ Dispatchable
    /\ Followed(caller)
    /\ conversation[AdminChat][caller] # "END"
    /\ conversation' = [conversation EXCEPT ![AdminChat][caller] = "END"]
    /\ UNCHANGED <<db, user_data, tasks, config>>

\* cmd_my_orders and cmd_balance: handled when the text is not taken by a
\* dialogue of the user
user_read(c, u) ==
    /\ Dispatchable
    /\ conversation[c][u] = "END"
    /\ ReadOnly
    /\ UNCHANGED <<conversation, user_data, tasks, config>>

\* A start of the process: post_init awaits init_db, which drops every table and
\* creates it again.  The dialogue states, context.user_data and the handlers of
\* the process before are gone with it.
\* A minute passes.  Once the orders table is at its bound no start_order is
\* taken and the clock is read no more: time is left to stand then.
tick ==
    /\ Len(orders) < OrdersBound
    /\ orders' = [o \in OrderIds |->
                    [orders[o] EXCEPT !.created_at =
                        IF @ - ONE_MINUTE < long_ago THEN long_ago ELSE @ - ONE_MINUTE]]
    /\ UNCHANGED <<affiliates, withdrawals, credited, debited, user_data,
                   conversation, tasks, config>>

post_init ==
    /\ affiliates' = <<>>
    /\ orders' = <<>>
    /\ withdrawals' = <<>>
    /\ credited' = <<>>
    /\ debited' = <<>>
    /\ user_data' = [u \in Users |-> NoData]
    /\ conversation' = [c \in Chats |-> [u \in DOMAIN conversation[c] |-> "END"]]
    /\ tasks' = [s \in Slots |-> NoTask]
    /\ UNCHANGED config

Next ==
    \/ post_init
    \/ tick
    \/ \E c \in Chats, u \in Users :
          \/ start_command(c, u)
          \/ \E valid \in BOOLEAN :
                \/ register_name(c, u, valid)
                \/ register_phone(c, u, valid)
                \/ register_store_name(c, u, valid)
                \/ order_text(c, u, valid)
          \/ cancel_conversation(c, u)
          \/ start_order(c, u)
          \/ \E country \in CountryInputs : order_country(c, u, country)
          \/ \E phone \in PhoneInputs : order_customer_phone(c, u, phone)
          \/ \E cost_price \in CostInputs : order_cost_price(c, u, cost_price)
          \/ \E selling_price \in SellingInputs :
                order_selling_price(c, u, selling_price)
          \/ start_withdrawal(c, u)
          \/ \E amount \in AmountInputs \cup {user_data[u].affiliate_balance} :
                withdrawal_amount(c, u, amount)
          \/ \E s \in Slots, valid \in BOOLEAN : withdrawal_phone(s, c, u, valid)
    \/ \E caller \in Callers : callback_unauthorized(caller)
    \/ \E s \in Slots :
          \/ withdrawal_phone_pending(s)
          \/ withdrawal_phone_commit(s)
          \/ \E caller \in Callers, action \in {"delivered", "issue"},
                order_id \in OrderIds :
                handle_order_status_callback(s, caller, action, order_id)
          \/ order_callback_affiliate(s)
          \/ order_callback_commit(s)
          \/ \E caller \in Callers, action \in {"approve", "reject"},
                withdrawal_id \in WithdrawalIds :
                handle_withdrawal_callback(s, caller, action, withdrawal_id)
          \/ withdrawal_callback_affiliate(s)
          \/ withdrawal_callback_commit(s)
          \/ reply_text(s)

\* handlers dispatched one update at a time
Spec == Init /\ [][Next]_vars

\* handlers of different updates overlapping at their awaits
SpecConcurrent == InitConcurrent /\ [][Next]_vars

\* handlers one at a time, in a process whose ceiling is set low
SpecRateLimit == InitRateLimit /\ [][Next]_vars

\* The dialogues of a user in two chats and the administrator's order callback,
\* one handler at a time, within one minute.
NextTwoChats ==
    \/ \E c \in Chats, u \in Users :
          \/ start_command(c, u)
          \/ \E valid \in BOOLEAN :
                \/ register_name(c, u, valid)
                \/ register_phone(c, u, valid)
                \/ register_store_name(c, u, valid)
                \/ order_text(c, u, valid)
          \/ cancel_conversation(c, u)
          \/ start_order(c, u)
          \/ \E country \in CountryInputs : order_country(c, u, country)
          \/ \E phone \in PhoneInputs : order_customer_phone(c, u, phone)
          \/ \E cost_price \in CostInputs : order_cost_price(c, u, cost_price)
          \/ \E selling_price \in SellingInputs :
                order_selling_price(c, u, selling_price)
          \/ start_withdrawal(c, u)
          \/ \E amount \in AmountInputs \cup {user_data[u].affiliate_balance} :
                withdrawal_amount(c, u, amount)
    \/ \E s \in Slots :
          \/ \E caller \in ADMIN_IDS, action \in {"delivered", "issue"},
                order_id \in OrderIds :
                handle_order_status_callback(s, caller, action, order_id)
          \/ order_callback_affiliate(s)
          \/ order_callback_commit(s)
          \/ reply_text(s)

SpecTwoChats == InitTwoChats /\ [][NextTwoChats]_vars

\* the administrator's order callback on an order of any currency
NextConvert ==
    \E s \in Slots :
        \/ \E caller \in Callers, action \in {"delivered", "issue"},
              order_id \in OrderIds :
              handle_order_status_callback(s, caller, action, order_id)
        \/ order_callback_affiliate(s)
        \/ order_callback_commit(s)
        \/ reply_text(s)

SpecConvert == InitConvert /\ [][NextConvert]_vars

\* the administrator callbacks, overlapping
NextLedger ==
    \E s \in Slots :
        \/ \E caller \in Callers, action \in {"delivered", "issue"},
              order_id \in OrderIds :
              handle_order_status_callback(s, caller, action, order_id)
        \/ order_callback_affiliate(s)
        \/ order_callback_commit(s)
        \/ \E caller \in Callers, action \in {"approve", "reject"},
              withdrawal_id \in WithdrawalIds :
              handle_withdrawal_callback(s, caller, action, withdrawal_id)
        \/ withdrawal_callback_affiliate(s)
        \/ withdrawal_callback_commit(s)
        \/ reply_text(s)

\* every handler, one at a time, with the administrator's menus and the read paths
NextAdmin ==
    \/ Next
    \/ \E caller \in Callers :
          \/ admin_command(caller)
          \/ admin_manage_orders(caller)
          \/ admin_manage_withdrawals(caller)
          \/ admin_read(caller)
          \/ admin_cancel(caller)
    \/ \E c \in Chats, u \in Users : user_read(c, u)

SpecAdmin == InitAdmin /\ [][NextAdmin]_vars

SpecLedger == InitLedger /\ [][NextLedger]_vars

TypeOK ==
    /\ \A a \in AffiliateIds : affiliates[a].telegram_id \in Users
    /\ Len(orders) <= OrdersBound /\ Len(credited) = Len(orders)
    /\ Len(withdrawals) <= MaxWithdrawals /\ Len(debited) = Len(withdrawals)
    /\ \A o \in OrderIds : orders[o].status \in {"pending", "delivered", "issue"}
    /\ \A w \in WithdrawalIds :
          withdrawals[w].status \in {"pending", "approved", "rejected"}

\* ---- properties

OrderCallback(t) == t.handler = "handle_order_status_callback"
WithdrawalCallback(t) == t.handler = "handle_withdrawal_callback"

\* a handler starts in slot s in this step
Starts(s) == tasks[s].pc = "done" /\ tasks'[s].pc # "done"

RECURSIVE SumUsdCommission(_)
SumUsdCommission(S) ==
    IF S = {} THEN 0
    ELSE LET o == CHOOSE x \in S : TRUE
         IN FloatAdd(convert_to_usd(orders[o].commission, orders[o].currency),
                     SumUsdCommission(S \ {o}))

RECURSIVE SumUsdSellingPrice(_)
SumUsdSellingPrice(S) ==
    IF S = {} THEN 0
    ELSE LET o == CHOOSE x \in S : TRUE
         IN FloatAdd(convert_to_usd(orders[o].selling_price, orders[o].currency),
                     SumUsdSellingPrice(S \ {o}))

\* the commissions and the selling prices, in USD, of the delivered commits
\* that were made for the orders of S, and the amounts of the approved commits
\* that were made for the withdrawals of S
RECURSIVE CreditedCommission(_)
CreditedCommission(S) ==
    IF S = {} THEN 0
    ELSE LET o == CHOOSE x \in S : TRUE
         IN FloatAdd(IF credited[o] = 0 THEN 0
                     ELSE FloatMul(credited[o],
                              convert_to_usd(orders[o].commission, orders[o].currency)),
                     CreditedCommission(S \ {o}))

RECURSIVE CreditedSellingPrice(_)
CreditedSellingPrice(S) ==
    IF S = {} THEN 0
    ELSE LET o == CHOOSE x \in S : TRUE
         IN FloatAdd(IF credited[o] = 0 THEN 0
                     ELSE FloatMul(credited[o],
                              convert_to_usd(orders[o].selling_price, orders[o].currency)),
                     CreditedSellingPrice(S \ {o}))

RECURSIVE DebitedAmount(_)
DebitedAmount(S) ==
    IF S = {} THEN 0
    ELSE LET w == CHOOSE x \in S : TRUE
         IN FloatAdd(IF debited[w] = 0 THEN 0
                     ELSE FloatMul(debited[w], withdrawals[w].amount),
                     DebitedAmount(S \ {w}))

WithdrawalsOf(affiliate_id) ==
    {w \in WithdrawalIds : withdrawals[w].affiliate_id = affiliate_id}

DeliveredOrdersOf(affiliate_id) ==
    {o \in OrdersOf(affiliate_id) : orders[o].status = "delivered"}

\* C1: after any sequence of operations every affiliate's balance is >= 0.
C1_BalanceNonNegative == \A a \in AffiliateIds : FloatLe(0, affiliates[a].balance)

\* C2: markDelivered called again on an order it has already delivered reports
\* already-processed with the existing status and writes nothing, so the order
\* is credited to the ledger exactly once.
C2_DeliveredTwiceCreditsOnce ==
    [][/\ \A o \in 1..Len(orders') :
             /\ credited'[o] <= 1
             /\ orders'[o].status = "delivered" => credited'[o] = 1
       /\ \A s \in Slots :
             (/\ Starts(s)
              /\ OrderCallback(tasks'[s])
              /\ tasks'[s].action = "delivered"
              /\ orders[tasks'[s].target].status = "delivered")
             => /\ tasks'[s].pc = "reply"
                /\ tasks'[s].result = "already_processed"
                /\ tasks'[s].seen = "delivered"
                /\ UNCHANGED <<affiliates, orders, withdrawals>>]_vars

\* the second markDelivered on a delivered order has been answered
C2_Witness ==
    \E s \in Slots :
        /\ OrderCallback(tasks[s])
        /\ tasks[s].action = "delivered"
        /\ tasks[s].result = "already_processed"
        /\ tasks[s].seen = "delivered"
        /\ credited[tasks[s].target] = 1

\* C3: of two approve calls on one pending withdrawal that overlap, one approves
\* and the other reports already-processed: the balance is debited once.
C3_ApprovedDebitsOnce ==
    /\ \A w \in WithdrawalIds : debited[w] <= 1
    /\ \A s, t \in Slots :
          (/\ s # t
           /\ WithdrawalCallback(tasks[s]) /\ WithdrawalCallback(tasks[t])
           /\ tasks[s].target = tasks[t].target
           /\ tasks[s].result = "approved")
          => tasks[t].result # "approved"

\* C4: of two markDelivered calls on one pending order that overlap, at most one
\* succeeds: the ledger is credited for the order at most once.
C4_DeliveredCreditsOnce == \A o \in OrderIds : credited[o] <= 1

\* C5: when markDelivered and markIssue on one pending order overlap, the ledger
\* has been credited for the order if and only if its status is delivered.
C5_CreditedIffDelivered ==
    \A o \in OrderIds : (credited[o] > 0) <=> (orders[o].status = "delivered")

\* C6: each affiliate has at most one pending withdrawal; a request made while
\* one is pending adds none.
C6_OnePendingWithdrawal ==
    /\ [](\A a \in AffiliateIds :
            Cardinality({w \in WithdrawalIds : /\ withdrawals[w].affiliate_id = a
                                               /\ withdrawals[w].status = "pending"}) <= 1)
    /\ [][\A w \in 1..Len(withdrawals') :
             w \notin WithdrawalIds
             => \A x \in WithdrawalIds :
                    withdrawals[x].affiliate_id = withdrawals'[w].affiliate_id
                    => withdrawals[x].status # "pending"]_vars

\* an affiliate with a processed withdrawal has requested again
C6_Witness ==
    \E w, x \in WithdrawalIds :
        /\ withdrawals[w].affiliate_id = withdrawals[x].affiliate_id
        /\ withdrawals[w].status = "pending"
        /\ withdrawals[x].status # "pending"

\* C7: of two withdrawal requests of one affiliate that overlap at the pending
\* check and the insert, at most one is persisted as pending.
C7_OverlappingRequestsOnePending ==
    \A s, t \in Slots :
        (/\ s # t
         /\ tasks[s].handler = "withdrawal_phone" /\ tasks[s].result = "created"
         /\ tasks[t].handler = "withdrawal_phone" /\ tasks[t].result = "created")
        => ~(/\ withdrawals[tasks[s].target].status = "pending"
             /\ withdrawals[tasks[t].target].status = "pending"
             /\ withdrawals[tasks[s].target].affiliate_id
                  = withdrawals[tasks[t].target].affiliate_id)

C9_ApprovedWithinBalance ==
    [][\A w \in WithdrawalIds :
          (/\ w \in 1..Len(withdrawals')
           /\ withdrawals[w].status # "approved"
           /\ withdrawals'[w].status = "approved")
          => FloatLe(withdrawals[w].amount,
                     affiliates[withdrawals[w].affiliate_id].balance)]_vars

\* C10: a status that is delivered, issue, approved or rejected never changes
\* for as long as the row exists.
C10_TerminalStatusIsFinal ==
    [][/\ \A o \in OrderIds :
             orders[o].status \in {"delivered", "issue"}
             => (o \in 1..Len(orders') => orders'[o].status = orders[o].status)
       /\ \A w \in WithdrawalIds :
             withdrawals[w].status \in {"approved", "rejected"}
             => (w \in 1..Len(withdrawals')
                 => withdrawals'[w].status = withdrawals[w].status)]_vars

\* a callback on a processed withdrawal has been answered and the status stands
C10_Witness ==
    \E s \in Slots :
        /\ WithdrawalCallback(tasks[s])
        /\ tasks[s].result = "already_processed"
        /\ tasks[s].seen \in {"approved", "rejected"}
        /\ withdrawals[tasks[s].target].status = tasks[s].seen

\* C11: markIssue, approve or reject called on an order or a withdrawal that is
\* not pending is answered as already processed with the status the row has,
\* and changes no order, no withdrawal and no affiliate.
C11_NonPendingIsAlreadyProcessed ==
    [][\A s \in Slots :
          (/\ Starts(s)
           /\ \/ /\ OrderCallback(tasks'[s])
                 /\ tasks'[s].action = "issue"
                 /\ orders[tasks'[s].target].status # "pending"
              \/ /\ WithdrawalCallback(tasks'[s])
                 /\ withdrawals[tasks'[s].target].status # "pending")
          => /\ tasks'[s].pc = "reply"
             /\ tasks'[s].result = "already_processed"
             /\ tasks'[s].seen = IF OrderCallback(tasks'[s])
                                 THEN orders[tasks'[s].target].status
                                 ELSE withdrawals[tasks'[s].target].status
             /\ UNCHANGED <<affiliates, orders, withdrawals>>]_vars

\* an approve on a rejected withdrawal has been answered, and the row is as it was
C11_Witness ==
    \E s \in Slots :
        /\ WithdrawalCallback(tasks[s])
        /\ tasks[s].action = "approve"
        /\ tasks[s].result = "already_processed"
        /\ tasks[s].seen = "rejected"
        /\ withdrawals[tasks[s].target].status = "rejected"
        /\ withdrawals[tasks[s].target].processed_at = "now"
        /\ debited[tasks[s].target] = 0

\* C12: an affiliate that is registered stays registered: its row exists, for
\* the same telegram id, in every later state, whatever operations and starts
\* of the process follow.
C12_AffiliateNeverDeleted ==
    [][\A a \in AffiliateIds :
          /\ a \in 1..Len(affiliates')
          /\ affiliates'[a].telegram_id = affiliates[a].telegram_id]_vars

\* C13: markDelivered on a pending order sets its status to delivered and in
\* the same step adds convert_to_usd(selling_price - cost_price) to the owner's
\* balance and total_earnings and convert_to_usd(selling_price) to its
\* total_sales, and nothing else of the affiliate changes.
C13_DeliveredCreditsNormalized ==
    [][\A o \in OrderIds :
          (/\ o \in 1..Len(orders')
           /\ orders[o].status = "pending"
           /\ orders'[o].status = "delivered")
          => LET a == orders[o].affiliate_id
                 usd_commission ==
                     convert_to_usd(FloatSub(orders[o].selling_price,
                                             orders[o].cost_price),
                                    orders[o].currency)
                 usd_selling_price ==
                     convert_to_usd(orders[o].selling_price, orders[o].currency)
             IN affiliates' = [affiliates EXCEPT
                    ![a].balance = FloatAdd(@, usd_commission),
                    ![a].total_earnings = FloatAdd(@, usd_commission),
                    ![a].total_sales = FloatAdd(@, usd_selling_price)]]_vars

\* an order of cost 100 and selling price 400 SAR has been delivered: 300 times
\* the rate is on the balance and in total_earnings, 400 times in total_sales
C13_Witness ==
    \E o \in OrderIds :
        /\ orders[o].status = "delivered"
        /\ orders[o].cost_price = 100 /\ orders[o].selling_price = 400
        /\ orders[o].currency = "SAR"
        /\ affiliates[orders[o].affiliate_id].balance = 300 * SAR_TO_USD
        /\ affiliates[orders[o].affiliate_id].total_earnings = 300 * SAR_TO_USD
        /\ affiliates[orders[o].affiliate_id].total_sales = 400 * SAR_TO_USD

\* C14: an approve of a pending withdrawal whose amount is at most the balance
\* goes through, and the step that makes the withdrawal approved subtracts
\* exactly its amount from the owner's balance, changes nothing else of the
\* affiliate, and records processed_at and the administrator; a withdrawal of
\* the whole balance is accepted (its approval leaves 0, see the witness).
C14_ApproveDebitsAmount ==
    [][/\ \A w \in WithdrawalIds :
             (/\ w \in 1..Len(withdrawals')
              /\ withdrawals[w].status = "pending"
              /\ withdrawals'[w].status = "approved")
             => /\ affiliates' = [affiliates EXCEPT
                       ![withdrawals[w].affiliate_id].balance =
                           FloatSub(@, withdrawals[w].amount)]
                /\ withdrawals'[w].processed_at = "now"
                /\ withdrawals'[w].processed_by_admin_id \in ADMIN_IDS
                /\ withdrawals'[w].amount = withdrawals[w].amount
                /\ withdrawals'[w].affiliate_id = withdrawals[w].affiliate_id
       /\ \A s \in Slots :
             (/\ WithdrawalCallback(tasks[s])
              /\ tasks[s].pc = "withdrawal_read"
              /\ tasks[s].action = "approve"
              /\ tasks[s].affiliate_id \in AffiliateIds
              /\ FloatLe(tasks[s].amount, affiliates[tasks[s].affiliate_id].balance)
              /\ tasks'[s] # tasks[s]
              /\ tasks'[s].pc # "done")
             => tasks'[s].pc = "affiliate_read"]_vars

\* a withdrawal of the whole balance has been approved and the balance is 0
C14_Witness ==
    \E w \in WithdrawalIds :
        /\ withdrawals[w].status = "approved"
        /\ withdrawals[w].processed_at = "now"
        /\ withdrawals[w].processed_by_admin_id \in ADMIN_IDS
        /\ withdrawals[w].amount = 300 * SAR_TO_USD
        /\ debited[w] = 1
        /\ affiliates[withdrawals[w].affiliate_id].balance = 0
        /\ affiliates[withdrawals[w].affiliate_id].total_earnings = 300 * SAR_TO_USD

\* C15: an approve of a pending withdrawal that finds the amount above the
\* affiliate's balance is answered with insufficient balance and writes
\* nothing: the withdrawal stays pending and unstamped, the balance as it was.
C15_ApproveAboveBalanceRefused ==
    [][\A s \in Slots :
          (/\ WithdrawalCallback(tasks[s])
           /\ tasks[s].pc = "withdrawal_read"
           /\ tasks[s].action = "approve"
           /\ tasks[s].affiliate_id \in AffiliateIds
           /\ FloatGt(tasks[s].amount, affiliates[tasks[s].affiliate_id].balance)
           /\ tasks'[s] # tasks[s]
           /\ tasks'[s].pc # "done")
          => /\ tasks'[s].pc = "reply"
             /\ tasks'[s].result = "insufficient_balance"
             /\ UNCHANGED <<affiliates, orders, withdrawals, debited>>]_vars

\* an approve has been refused for insufficient balance; the withdrawal is
\* pending, unstamped and not debited
C15_Witness ==
    \E s \in Slots :
        /\ WithdrawalCallback(tasks[s])
        /\ tasks[s].action = "approve"
        /\ tasks[s].result = "insufficient_balance"
        /\ withdrawals[tasks[s].target].status = "pending"
        /\ withdrawals[tasks[s].target].processed_at = "NULL"
        /\ withdrawals[tasks[s].target].processed_by_admin_id = 0
        /\ debited[tasks[s].target] = 0
        /\ FloatGt(withdrawals[tasks[s].target].amount,
                   affiliates[withdrawals[tasks[s].target].affiliate_id].balance)

\* C16: the step that creates a withdrawal request adds exactly one row, with
\* status pending and unstamped, and changes nothing else: no affiliate field
\* (the balance is not debited), no order, no other withdrawal.
C16_RequestLeavesBalance ==
    [][Len(withdrawals') > Len(withdrawals)
       => /\ Len(withdrawals') = Len(withdrawals) + 1
          /\ withdrawals'[Len(withdrawals')].status = "pending"
          /\ withdrawals'[Len(withdrawals')].processed_at = "NULL"
          /\ withdrawals'[Len(withdrawals')].processed_by_admin_id = 0
          /\ \A w \in WithdrawalIds : withdrawals'[w] = withdrawals[w]
          /\ UNCHANGED <<affiliates, orders>>]_vars

\* a request for 50 USD of a balance of 79.95 USD has been created: the row is
\* pending and the balance is still 79.95
C16_Witness ==
    \E s \in Slots :
        /\ tasks[s].handler = "withdrawal_phone"
        /\ tasks[s].result = "created"
        /\ withdrawals[tasks[s].target].status = "pending"
        /\ withdrawals[tasks[s].target].amount = MIN_WITHDRAWAL_AMOUNT
        /\ affiliates[withdrawals[tasks[s].target].affiliate_id].balance
             = 300 * SAR_TO_USD
        /\ debited[tasks[s].target] = 0

\* C17: the step that rejects a pending withdrawal sets its status to rejected,
\* records processed_at and the rejecting administrator, and changes no
\* affiliate field, no order and nothing else of the withdrawal.
C17_RejectLeavesBalance ==
    [][\A w \in WithdrawalIds :
          (/\ w \in 1..Len(withdrawals')
           /\ withdrawals[w].status = "pending"
           /\ withdrawals'[w].status = "rejected")
          => /\ withdrawals'[w] = [withdrawals[w] EXCEPT
                    !.status = "rejected",
                    !.processed_at = "now",
                    !.processed_by_admin_id = withdrawals'[w].processed_by_admin_id]
             /\ withdrawals'[w].processed_by_admin_id \in ADMIN_IDS
             /\ \E s \in Slots : /\ WithdrawalCallback(tasks[s])
                                 /\ tasks[s].action = "reject"
                                 /\ tasks[s].target = w
                                 /\ tasks[s].user = withdrawals'[w].processed_by_admin_id
             /\ UNCHANGED <<affiliates, orders, debited>>]_vars

\* a withdrawal has been rejected and stamped, and the balance is what the
\* delivered order credited
C17_Witness ==
    \E w \in WithdrawalIds :
        /\ withdrawals[w].status = "rejected"
        /\ withdrawals[w].processed_at = "now"
        /\ withdrawals[w].processed_by_admin_id \in ADMIN_IDS
        /\ debited[w] = 0
        /\ affiliates[withdrawals[w].affiliate_id].balance = 300 * SAR_TO_USD
        /\ affiliates[withdrawals[w].affiliate_id].total_earnings = 300 * SAR_TO_USD

\* C18: markIssue on a pending order writes the status issue, and the step
\* that takes an order from pending to issue changes no affiliate field, no
\* withdrawal and nothing else of the order.
C18_IssueLeavesLedger ==
    [][/\ \A o \in OrderIds :
             (/\ o \in 1..Len(orders')
              /\ orders[o].status = "pending"
              /\ orders'[o].status = "issue")
             => /\ orders'[o] = [orders[o] EXCEPT !.status = "issue"]
                /\ UNCHANGED <<affiliates, withdrawals, credited>>
       /\ \A s \in Slots :
             (/\ OrderCallback(tasks[s])
              /\ tasks[s].pc = "affiliate_read"
              /\ tasks[s].action = "issue"
              /\ tasks'[s] # tasks[s]
              /\ tasks'[s].pc # "done")
             => /\ orders'[tasks[s].target].status = "issue"
                /\ tasks'[s].result = "issue"
                /\ UNCHANGED affiliates]_vars

\* an order has been marked issue and its owner has only the order counted
C18_Witness ==
    \E o \in OrderIds :
        /\ orders[o].status = "issue"
        /\ credited[o] = 0
        /\ affiliates[orders[o].affiliate_id].balance = 0
        /\ affiliates[orders[o].affiliate_id].total_earnings = 0
        /\ affiliates[orders[o].affiliate_id].total_sales = 0
        /\ affiliates[orders[o].affiliate_id].total_orders = 1

\* C19: every withdrawal, at the step that inserts it, has amount > 0, amount >=
\* MIN_WITHDRAWAL_AMOUNT and amount <= the balance that the inserting handler
\* has read.
C19_InsertedAmountWithinLimits ==
    [][Len(withdrawals') > Len(withdrawals)
       => \E s \in Slots :
             /\ tasks[s].handler = "withdrawal_phone"
             /\ tasks[s].pc = "pending_read"
             /\ tasks'[s].result = "created"
             /\ LET amount == withdrawals'[Len(withdrawals')].amount IN
                /\ FloatGt(amount, 0)
                /\ FloatLe(MIN_WITHDRAWAL_AMOUNT, amount)
                /\ FloatLe(amount, tasks[s].balance)]_vars

C21_PersistedPricesValid ==
    \A o \in OrderIds :
        /\ FloatGt(orders[o].cost_price, 0)
        /\ FloatGt(orders[o].selling_price, orders[o].cost_price)
        /\ FloatGt(orders[o].commission, 0)

\* the orders of an affiliate created within the trailing minute, the instant
\* one minute ago included
OrdersInWindow(affiliate_id) ==
    {o \in OrderIds : /\ orders[o].affiliate_id = affiliate_id
                      /\ get_now_timezone_aware - orders[o].created_at <= ONE_MINUTE}

\* start_order of user u can be taken and lets the dialogue begin
StartOrderPasses(c, u) ==
    ENABLED (start_order(c, u) /\ conversation'[c][u] = "ORDER_CUSTOMER_NAME")

\* user u is registered and may send the order button in chat c
MayStartOrder(c, u) ==
    /\ Dispatchable
    /\ conversation[c][u] = "END"
    /\ AffiliateByTelegram(u) # 0
    /\ Len(orders) < OrdersBound

\* C22: the rate-limit check of an affiliate fails exactly when the number of
\* its orders created within the trailing minute, boundary included, is at
\* least the ceiling; and the step that makes the check changes no table.
C22_RateLimitCountsTrailingMinute ==
    /\ [](\A c \in Chats, u \in Users :
            MayStartOrder(c, u)
            => (StartOrderPasses(c, u)
                <=> Cardinality(OrdersInWindow(AffiliateByTelegram(u)))
                      < rate_limit_per_minute))
    /\ [][\A c \in Chats, u \in Users : start_order(c, u) => UNCHANGED db]_vars

\* an affiliate whose one order was created exactly a minute ago, at a ceiling
\* of 1, sends the order button and the check fails
C22_Witness ==
    \E c \in Chats, u \in Users :
        /\ MayStartOrder(c, u)
        /\ rate_limit_per_minute = 1
        /\ \E o \in OrderIds : /\ orders[o].affiliate_id = AffiliateByTelegram(u)
                               /\ orders[o].created_at = one_minute_ago
        /\ ~StartOrderPasses(c, u)

\* C23: an order is inserted only from the last step of a dialogue that
\* start_order let begin for its affiliate, and at the instant of the insert
\* the affiliate has fewer than the ceiling of orders created within the
\* trailing minute.
C23_NoOrderAtCeiling ==
    [][Len(orders') > Len(orders)
       => LET a == orders'[Len(orders')].affiliate_id IN
          /\ Cardinality(OrdersInWindow(a)) < rate_limit_per_minute
          /\ \E c \in Chats, u \in Users :
                /\ conversation[c][u] = "ORDER_SELLING_PRICE"
                /\ user_data[u].affiliate_id = a
                /\ AffiliateByTelegram(u) = a]_vars

\* C25: a callback handler gets past its first check only for a caller in
\* ADMIN_IDS: for any other caller no step of handle_order_status_callback or
\* handle_withdrawal_callback is possible but the answer that changes nothing;
\* and every step that changes the status of an order or a withdrawal is the
\* commit of a callback whose caller is in ADMIN_IDS.
C25_OnlyAdministrator ==
    /\ [](\A caller \in Callers \ ADMIN_IDS, s \in Slots :
            /\ \A action \in {"delivered", "issue"}, order_id \in OrderIds :
                  ~ENABLED handle_order_status_callback(s, caller, action, order_id)
            /\ \A action \in {"approve", "reject"}, withdrawal_id \in WithdrawalIds :
                  ~ENABLED handle_withdrawal_callback(s, caller, action, withdrawal_id))
    /\ [][/\ \A caller \in Callers \ ADMIN_IDS :
               callback_unauthorized(caller) => UNCHANGED db
          /\ \A o \in 1..Len(orders) :
               (o \in 1..Len(orders') /\ orders'[o].status # orders[o].status)
               => \E s \in Slots : /\ OrderCallback(tasks[s])
                                   /\ tasks[s].target = o
                                   /\ tasks[s].user \in ADMIN_IDS
          /\ \A w \in 1..Len(withdrawals) :
               (w \in 1..Len(withdrawals') /\ withdrawals'[w].status # withdrawals[w].status)
               => \E s \in Slots : /\ WithdrawalCallback(tasks[s])
                                   /\ tasks[s].target = w
                                   /\ tasks[s].user \in ADMIN_IDS]_vars

\* a registered user who is not an administrator can press a callback button
\* while a withdrawal is pending, and an administrator's callback has
\* delivered an order
C25_Witness ==
    /\ Dispatchable
    /\ \E u \in Users \ ADMIN_IDS :
          AffiliateByTelegram(u) # 0 /\ ENABLED callback_unauthorized(u)
    /\ \E w \in WithdrawalIds : IsPending(withdrawals[w].status)
    /\ \E o \in OrderIds : orders[o].status = "delivered"

\* C26: no two rows of affiliates have the same telegram_id; and for a user
\* who is registered, /start ends at once and the last step of a registration
\* dialogue ends the dialogue, both leaving the table of affiliates as it is.
C26_OneAffiliatePerIdentity ==
    /\ [](\A a, b \in AffiliateIds :
            affiliates[a].telegram_id = affiliates[b].telegram_id => a = b)
    /\ [][\A c \in Chats, u \in Users :
            AffiliateByTelegram(u) # 0
            => /\ start_command(c, u)
                  => (affiliates' = affiliates /\ conversation'[c][u] = "END")
               /\ register_store_name(c, u, TRUE)
                  => (affiliates' = affiliates /\ conversation'[c][u] = "END")]_vars

\* a registered user is at the last step of a registration dialogue, with a
\* name and a phone entered
C26_Witness ==
    \E c \in Chats, u \in Users :
        /\ AffiliateByTelegram(u) # 0
        /\ conversation[c][u] = "REGISTER_STORE_NAME"
        /\ {"registration_name", "registration_phone"} \subseteq user_data[u].texts

C28_CurrencyNormalization ==
    [][\A s \in Slots :
          order_callback_commit(s)
          => LET o == orders[tasks[s].target]
                 a == affiliates[o.affiliate_id]
                 rate == IF o.currency = "SAR" THEN SAR_TO_USD
                         ELSE IF o.currency = "AED" THEN AED_TO_USD ELSE ONE_USD
             IN IF o.currency \notin {"SAR", "AED", "USD"}
                THEN /\ UNCHANGED db
                     /\ tasks'[s].result = "error"
                ELSE IF tasks[s].action = "delivered"
                THEN /\ affiliates'[o.affiliate_id].balance
                          = FloatAdd(a.balance, FloatMul(o.commission, rate))
                     /\ affiliates'[o.affiliate_id].total_sales
                          = FloatAdd(a.total_sales, FloatMul(o.selling_price, rate))
                ELSE affiliates' = affiliates]_vars

\* the callback has ended in an error on an order whose currency is not known:
\* the order is pending and the affiliate has been credited nothing
C28_Witness ==
    \E s \in Slots :
        /\ OrderCallback(tasks[s])
        /\ tasks[s].result = "error"
        /\ orders[tasks[s].target].currency = "EGP"
        /\ IsPending(orders[tasks[s].target].status)
        /\ affiliates[orders[tasks[s].target].affiliate_id].balance = 0

\* C29: every order in the table has the currency get_currency_for_country
\* gives for its country, SAR for Saudi Arabia and AED for UAE, and a
\* commission equal to selling_price - cost_price; and no step changes the
\* country, the currency, a price or the commission of an order in the table.
C29_CurrencyAndCommissionFixed ==
    /\ [](\A o \in OrderIds :
            /\ orders[o].country \in {"Saudi Arabia", "UAE"}
            /\ orders[o].currency = (IF orders[o].country = "Saudi Arabia"
                                     THEN "SAR" ELSE "AED")
            /\ orders[o].commission
                 = FloatSub(orders[o].selling_price, orders[o].cost_price))
    /\ [][\A o \in OrderIds :
            o \in 1..Len(orders')
            => /\ orders'[o].country = orders[o].country
               /\ orders'[o].currency = orders[o].currency
               /\ orders'[o].cost_price = orders[o].cost_price
               /\ orders'[o].selling_price = orders[o].selling_price
               /\ orders'[o].commission = orders[o].commission]_vars

\* an order for the UAE has been delivered: it is in AED, its commission is
\* still 300 and the affiliate has been credited 300 * AED_TO_USD
C29_Witness ==
    \E o \in OrderIds :
        /\ orders[o].status = "delivered"
        /\ orders[o].country = "UAE"
        /\ orders[o].currency = "AED"
        /\ orders[o].commission = 300
        /\ affiliates[orders[o].affiliate_id].balance = 300 * AED_TO_USD

\* the states of the order dialogue
OrderStates == OrderTextStates \cup {"ORDER_COUNTRY", "ORDER_CUSTOMER_PHONE",
                                      "ORDER_COST_PRICE", "ORDER_SELLING_PRICE"}

\* C30: an order is inserted only by the last step of an order dialogue; a
\* dialogue reaches each step only from the step before it, beginning with the
\* customer name; and every order in the table has the fields the steps let
\* through: a supported country, a phone that is valid for that country, a
\* cost price above 0 and a selling price the dialogue accepts over it.
C30_OrdersFullyValidated ==
    /\ [](\A o \in OrderIds :
            /\ orders[o].country \in {"Saudi Arabia", "UAE"}
            /\ validate_customer_phone(orders[o].customer_phone, orders[o].country)
            /\ FloatGt(orders[o].cost_price, 0)
            /\ ValidPricing(orders[o].cost_price, orders[o].selling_price))
    /\ [][/\ Len(orders') > Len(orders)
             => \E c \in Chats, u \in Users :
                   /\ conversation[c][u] = "ORDER_SELLING_PRICE"
                   /\ conversation'[c][u] = "END"
                   /\ OrderTextKeys \subseteq user_data[u].texts
          /\ \A c \in Chats, u \in Users :
                (/\ conversation'[c][u] # conversation[c][u]
                 /\ conversation'[c][u] \in OrderStates)
                => IF conversation[c][u] = "END"
                   THEN conversation'[c][u] = "ORDER_CUSTOMER_NAME"
                   ELSE /\ conversation[c][u] \in OrderStates \ {"ORDER_SELLING_PRICE"}
                        /\ conversation'[c][u] = NextOrderState(conversation[c][u])]_vars

ReadPath ==
    \/ \E caller \in Callers :
          \/ admin_read(caller)
          \/ admin_manage_orders(caller)
          \/ admin_manage_withdrawals(caller)
    \/ \E c \in Chats, u \in Users : user_read(c, u)

\* C32: a handler that only reads (an affiliate's list of orders and balance
\* statement, the administrator's statistics, the lists of pending orders and
\* of pending withdrawals, the orders of one affiliate) leaves every field of
\* every affiliate, order and withdrawal as it was.
C32_ReadPathsChangeNothing ==
    [][ReadPath => /\ affiliates' = affiliates
                   /\ orders' = orders
                   /\ withdrawals' = withdrawals]_vars

\* an affiliate, an order and a withdrawal are stored and the administrator
\* has the menu of the pending orders open, where the list is read again
C32_Witness ==
    /\ Len(affiliates) > 0 /\ Len(orders) > 0 /\ Len(withdrawals) > 0
    /\ Dispatchable
    /\ \E caller \in ADMIN_IDS :
          /\ Followed(caller)
          /\ conversation[AdminChat][caller] = "ADMIN_ORDERS_MENU"

\* the amounts of the approved withdrawals among S
RECURSIVE ApprovedAmount(_)
ApprovedAmount(S) ==
    IF S = {} THEN 0
    ELSE LET w == CHOOSE x \in S : TRUE
         IN FloatAdd(IF withdrawals[w].status = "approved"
                     THEN withdrawals[w].amount ELSE 0,
                     ApprovedAmount(S \ {w}))

\* C33: with handlers run one at a time, in every state each affiliate's balance
\* is its total_earnings less the amounts of its approved withdrawals; pending
\* and rejected withdrawals count for nothing.
C33_BalanceIsEarningsLessApproved ==
    \A a \in AffiliateIds :
        affiliates[a].balance =
            FloatSub(affiliates[a].total_earnings, ApprovedAmount(WithdrawalsOf(a)))

\* an affiliate with one withdrawal approved and another one rejected or
\* pending, whose balance is the earnings less the approved amount alone
C33_Witness ==
    \E a \in AffiliateIds : \E w, v \in WithdrawalsOf(a) :
        /\ withdrawals[w].status = "approved"
        /\ withdrawals[w].amount = MIN_WITHDRAWAL_AMOUNT
        /\ withdrawals[v].status # "approved"
        /\ withdrawals[v].amount # NaN
        /\ affiliates[a].total_earnings = 300 * SAR_TO_USD
        /\ affiliates[a].balance = 300 * SAR_TO_USD - MIN_WITHDRAWAL_AMOUNT

\* C34: with handlers run one at a time, while a withdrawal stays pending the
\* balance of its owner does not decrease; the approval's balance check passes
\* for every pending withdrawal, and no approve is answered with insufficient
\* balance.
C34_PendingCanBeApproved ==
    /\ [](\A w \in WithdrawalIds :
            withdrawals[w].status = "pending"
            => /\ withdrawals[w].affiliate_id \in AffiliateIds
               /\ ApproveAllowed(Balance(withdrawals[w].affiliate_id),
                                 withdrawals[w].amount))
    /\ [](\A s \in Slots :
            WithdrawalCallback(tasks[s]) => tasks[s].result # "insufficient_balance")
    /\ [][\A w \in WithdrawalIds :
            (/\ w \in 1..Len(withdrawals')
             /\ withdrawals[w].status = "pending"
             /\ withdrawals'[w].status = "pending")
            => ~FloatLt(affiliates'[withdrawals[w].affiliate_id].balance,
                        affiliates[withdrawals[w].affiliate_id].balance)]_vars

\* an approve of a pending withdrawal of the whole balance has passed the
\* balance check and is about to commit
C34_Witness ==
    \E s \in Slots :
        /\ WithdrawalCallback(tasks[s])
        /\ tasks[s].action = "approve"
        /\ tasks[s].pc = "affiliate_read"
        /\ tasks[s].amount = tasks[s].balance
        /\ tasks[s].amount = 300 * SAR_TO_USD
        /\ withdrawals[tasks[s].target].status = "pending"

\* the affiliate has a withdrawal that was approved or rejected and none pending
Settled(a) ==
    /\ \E w \in WithdrawalsOf(a) : withdrawals[w].status \in {"approved", "rejected"}
    /\ \A w \in WithdrawalsOf(a) : withdrawals[w].status # "pending"

\* C35: once an affiliate's withdrawal has been approved or rejected and none
\* is pending, a new request is taken up again: start_withdrawal asks for the
\* amount exactly when the balance reaches the minimum, and withdrawal_phone's
\* re-check for a pending request lets the request through to its commit.
C35_RequestAcceptedAfterDecision ==
    /\ \A c \in Chats, u \in Users :
          (/\ Dispatchable
           /\ conversation[c][u] = "END"
           /\ Len(withdrawals) < MaxWithdrawals
           /\ AffiliateByTelegram(u) # 0
           /\ Settled(AffiliateByTelegram(u)))
          => ((ENABLED (/\ start_withdrawal(c, u)
                        /\ conversation'[c][u] = "WITHDRAWAL_AMOUNT"))
              <=> ~FloatLt(Balance(AffiliateByTelegram(u)), MIN_WITHDRAWAL_AMOUNT))
    /\ \A s \in Slots :
          (/\ tasks[s].handler = "withdrawal_phone"
           /\ tasks[s].pc = "affiliate_read"
           /\ Settled(tasks[s].affiliate_id))
          => ENABLED (/\ withdrawal_phone_pending(s)
                      /\ tasks'[s].pc = "pending_read")

\* a first withdrawal has been rejected, and a second request of the same
\* affiliate has been stored and is pending
C35_Witness ==
    /\ Len(withdrawals) = 2
    /\ withdrawals[1].status = "rejected"
    /\ withdrawals[2].status = "pending"
    /\ withdrawals[2].affiliate_id = withdrawals[1].affiliate_id
    /\ withdrawals[2].amount = MIN_WITHDRAWAL_AMOUNT
    /\ withdrawals[1].amount # NaN
    /\ affiliates[withdrawals[2].affiliate_id].balance # NaN

\* C36: in every state a withdrawal carries processed_at and
\* processed_by_admin_id exactly when its status is approved or rejected, a
\* pending one carries neither, and no step writes to a withdrawal that has
\* been decided: its status and both stamps stay as the decision left them.
C36_StampedWhenDecided ==
    /\ [](\A w \in WithdrawalIds :
            /\ withdrawals[w].status \in {"approved", "rejected"}
               <=> withdrawals[w].processed_at # "NULL"
            /\ withdrawals[w].status \in {"approved", "rejected"}
               <=> withdrawals[w].processed_by_admin_id # 0
            /\ withdrawals[w].status = "pending"
               => /\ withdrawals[w].processed_at = "NULL"
                  /\ withdrawals[w].processed_by_admin_id = 0)
    /\ [][/\ \A w \in WithdrawalIds :
               (/\ w \in 1..Len(withdrawals')
                /\ withdrawals[w].status # "pending")
               => withdrawals'[w] = withdrawals[w]
          /\ \A s \in Slots :
               withdrawal_callback_commit(s)
               => withdrawals[tasks[s].target].status = "pending"]_vars

\* a rejected withdrawal keeps the stamps of its rejection after a later
\* approve of it was answered as already processed, while the affiliate's
\* next request is pending and carries no stamp
C36_Witness ==
    /\ Len(withdrawals) = 2
    /\ withdrawals[1].status = "rejected"
    /\ withdrawals[1].processed_at = "now"
    /\ withdrawals[1].processed_by_admin_id \in ADMIN_IDS
    /\ withdrawals[2].status = "pending"
    /\ withdrawals[2].processed_at = "NULL"
    /\ withdrawals[2].processed_by_admin_id = 0
    /\ \E s \in Slots :
          /\ WithdrawalCallback(tasks[s])
          /\ tasks[s].action = "approve"
          /\ tasks[s].target = 1
          /\ tasks[s].result = "already_processed"

\* C37: across every step that keeps an affiliate, handlers overlapping or not,
\* its total_earnings, total_sales and total_orders are not lower afterwards;
\* its balance is lower afterwards only in the commit of an approval of one of
\* its withdrawals.
C37_TotalsNeverDecrease ==
    [][\A a \in AffiliateIds :
          a \in 1..Len(affiliates')
          => /\ ~FloatLt(affiliates'[a].total_earnings, affiliates[a].total_earnings)
             /\ ~FloatLt(affiliates'[a].total_sales, affiliates[a].total_sales)
             /\ affiliates'[a].total_orders >= affiliates[a].total_orders
             /\ FloatLt(affiliates'[a].balance, affiliates[a].balance)
                => \E s \in Slots :
                      /\ withdrawal_callback_commit(s)
                      /\ tasks[s].action = "approve"
                      /\ tasks[s].affiliate_id = a]_vars

\* an approval has lowered the balance below the earnings, which with the
\* sales and the order count are what the delivered order left
C37_Witness ==
    \E a \in AffiliateIds : \E s \in Slots :
        /\ WithdrawalCallback(tasks[s])
        /\ tasks[s].result = "approved"
        /\ withdrawals[tasks[s].target].affiliate_id = a
        /\ affiliates[a].total_earnings = 300 * SAR_TO_USD
        /\ affiliates[a].total_sales = 400 * SAR_TO_USD
        /\ affiliates[a].total_orders = 1
        /\ affiliates[a].balance = 300 * SAR_TO_USD - MIN_WITHDRAWAL_AMOUNT

\* the states of the order dialogue and of the withdrawal dialogue
OrderOrWithdrawalStates ==
    {"ORDER_CUSTOMER_NAME", "ORDER_COUNTRY", "ORDER_CUSTOMER_PHONE", "ORDER_ADDRESS",
     "ORDER_CITY", "ORDER_PRODUCT", "ORDER_PRODUCT_CODE", "ORDER_COST_PRICE",
     "ORDER_SELLING_PRICE", "WITHDRAWAL_AMOUNT", "WITHDRAWAL_PHONE"}

\* C38: a cancel in any state of the order dialogue or of the withdrawal
\* dialogue ends the dialogue, creates no order and no withdrawal, changes no
\* field of an affiliate, and leaves none of the fields the dialogue collected,
\* so that the dialogue started next finds them empty.
C38_CancelPersistsNothing ==
    [][\A c \in Chats, u \in Users :
          (/\ conversation[c][u] \in OrderOrWithdrawalStates
           /\ cancel_conversation(c, u))
          => /\ orders' = orders
             /\ withdrawals' = withdrawals
             /\ affiliates' = affiliates
             /\ conversation'[c][u] = "END"
             /\ user_data'[u] = NoData]_vars

\* the withdrawal dialogue has collected the affiliate, the balance and the
\* amount and waits for the phone number, where a cancel is handled
C38_Witness ==
    \E c \in Chats, u \in Users :
        /\ conversation[c][u] = "WITHDRAWAL_PHONE"
        /\ user_data[u].withdrawal_amount = MIN_WITHDRAWAL_AMOUNT
        /\ user_data[u].affiliate_id \in AffiliateIds
        /\ Len(withdrawals) = 0
        /\ ENABLED cancel_conversation(c, u)

\* a delivered or issue, an approve or reject, of the caller can be taken up
OrderCallbackAccepted(caller) ==
    ENABLED (\E s \in Slots, action \in {"delivered", "issue"}, o \in OrderIds :
                handle_order_status_callback(s, caller, action, o))

WithdrawalCallbackAccepted(caller) ==
    ENABLED (\E s \in Slots, action \in {"approve", "reject"}, w \in WithdrawalIds :
                handle_withdrawal_callback(s, caller, action, w))

C24_RefusedUntilWindowRolls ==
    /\ [][\A a \in AffiliateIds :
            Cardinality(OrdersInWindow(a)) >= rate_limit_per_minute
            => Cardinality({o \in 1..Len(orders') : orders'[o].affiliate_id = a})
                  <= Cardinality(OrdersOf(a))]_vars
    /\ [](\A c \in Chats, u \in Users :
            (/\ MayStartOrder(c, u)
             /\ Cardinality(OrdersInWindow(AffiliateByTelegram(u)))
                   < rate_limit_per_minute)
            => StartOrderPasses(c, u))

====
